---------------------------- MODULE Spec2Model ----------------------------
(* Request signing, URL construction, the HTTP exchange and the response  *)
(* envelope parser of package rtm (src/client.go).                         *)
(*                                                                         *)
(* Go strings that are sorted, concatenated, hashed or escaped are byte    *)
(* sequences (tuples of 0..255); strings that are only compared for        *)
(* equality (element names, endpoint parts, error texts) are TLA+ strings. *)
EXTENDS Integers, Sequences, FiniteSets, TLC

VARIABLES client, in, net, run, signed, authURL

vars == <<client, in, net, run, signed, authURL>>

-----------------------------------------------------------------------------
(* Bounds of the model. *)

\* most entries in a caller-supplied Args mapping
MaxArgs == 2
\* most entries in a parameter set handed to sign on its own
MaxParams == 2
\* most child elements of the response's root element
MaxChildren == 1

-----------------------------------------------------------------------------
(* String literals of client.go, as bytes. *)

K_v == <<118>>
K_method == <<109, 101, 116, 104, 111, 100>>
K_format == <<102, 111, 114, 109, 97, 116>>
K_api_key == <<97, 112, 105, 95, 107, 101, 121>>
K_auth_token == <<97, 117, 116, 104, 95, 116, 111, 107, 101, 110>>
K_api_sig == <<97, 112, 105, 95, 115, 105, 103>>
K_perms == <<112, 101, 114, 109, 115>>
K_frob == <<102, 114, 111, 98>>
V_2 == <<50>>
V_ok == <<111, 107>>

Read == <<114, 101, 97, 100>>
Write == <<119, 114, 105, 116, 101>>
Delete == <<100, 101, 108, 101, 116, 101>>
Perms == {Read, Write, Delete}

userAgent == "github.com/AlekSi/rtm"
authEndpoint == [Scheme |-> "https", Host |-> "api.rememberthemilk.com",
                 Path |-> "/services/auth/", RawQuery |-> <<>>]
restEndpoint == [Scheme |-> "https", Host |-> "api.rememberthemilk.com",
                 Path |-> "/services/rest/", RawQuery |-> <<>>]

-----------------------------------------------------------------------------
(* Go maps (Args, url.Values with one value per key, which is all Set      *)
(* ever stores).  A map is the sequence of its entries in slot order: a    *)
(* new key takes the next free slot, an existing key keeps its slot.       *)

MapKeys(m) == [i \in 1..Len(m) |-> m[i].k]

KeySet(m) == {m[i].k : i \in 1..Len(m)}

Has(m, k) == k \in KeySet(m)

\* url.Values.Get: the value stored under k, "" when there is none
Get(m, k) ==
    IF Has(m, k) THEN m[CHOOSE i \in 1..Len(m) : m[i].k = k].v ELSE <<>>

\* url.Values.Set: replaces the value of k, or adds k
Set(m, k, v) ==
    IF Has(m, k)
    THEN [i \in 1..Len(m) |-> IF m[i].k = k THEN [k |-> k, v |-> v] ELSE m[i]]
    ELSE Append(m, [k |-> k, v |-> v])

\* `for k := range m`: Go leaves the order unspecified; the runtime walks
\* the slots of a small map from a random starting offset, wrapping round.
\* off is that offset.
Range(m, off) ==
    [i \in 1..Len(m) |-> m[((i - 1 + off) % Len(m)) + 1]]

Offsets(m) == IF Len(m) = 0 THEN {0} ELSE 0..(Len(m) - 1)

-----------------------------------------------------------------------------
(* sort.Strings: ascending byte-wise order. *)

StrLess(a, b) ==
    LET n == IF Len(a) < Len(b) THEN Len(a) ELSE Len(b)
        diff == {i \in 1..n : a[i] # b[i]}
    IN  IF diff = {}
        THEN Len(a) < Len(b)
        ELSE LET i == CHOOSE j \in diff : \A l \in diff : j <= l
             IN  a[i] < b[i]

RECURSIVE InsertSorted(_, _)
InsertSorted(s, x) ==
    IF s = <<>> THEN <<x>>
    ELSE IF StrLess(x, Head(s)) THEN <<x>> \o s
    ELSE <<Head(s)>> \o InsertSorted(Tail(s), x)

RECURSIVE SortedFrom(_, _)
SortedFrom(acc, rest) ==
    IF rest = <<>> THEN acc
    ELSE SortedFrom(InsertSorted(acc, Head(rest)), Tail(rest))

\* a plausible slip: the keys are used in iteration order
SortStringsSkipped(keys) == keys

SortStrings(keys) == SortedFrom(<<>>, keys)

-----------------------------------------------------------------------------
(* md5.Sum and hex.EncodeToString.  MD5 itself is beyond TLC; the digest   *)
(* here is a 16-bit polynomial checksum of the same bytes, two bytes wide  *)
(* instead of sixteen.  No property below relies on the digest being       *)
(* collision-free: they are stated on the string that is hashed.           *)

RECURSIVE Md5Fold(_, _)
Md5Fold(h, s) ==
    IF s = <<>> THEN h ELSE Md5Fold((h * 31 + Head(s)) % 65536, Tail(s))

Md5Sum(s) ==
    LET h == Md5Fold(7, s) IN <<h \div 256, h % 256>>

HexLower(n) == IF n < 10 THEN 48 + n ELSE 87 + n

RECURSIVE EncodeToString(_)
EncodeToString(sum) ==
    IF sum = <<>> THEN <<>>
    ELSE <<HexLower(Head(sum) \div 16), HexLower(Head(sum) % 16)>>
         \o EncodeToString(Tail(sum))

-----------------------------------------------------------------------------
(* Client.sign *)

\* lines 70-74: the keys of q, collected in iteration order, then sorted
signKeys(q, off) == SortStrings(MapKeys(Range(q, off)))

RECURSIVE signConcat(_, _)
signConcat(q, keys) ==
    IF keys = <<>> THEN <<>>
    ELSE Head(keys) \o Get(q, Head(keys)) \o signConcat(q, Tail(keys))

\* lines 76-79: sts, the string to sign
signSts(c, q, off) == c.APISecret \o signConcat(q, signKeys(q, off))

\* lines 81-82: q with api_sig set
sign(c, q, off) ==
    Set(q, K_api_sig, EncodeToString(Md5Sum(signSts(c, q, off))))

-----------------------------------------------------------------------------
(* url.Values.Encode and url.QueryEscape, as used for RawQuery. *)

HexUpper(n) == IF n < 10 THEN 48 + n ELSE 55 + n

\* letters, digits, '-', '_', '.', '~' are left alone
Unreserved(b) ==
    \/ (b >= 97 /\ b <= 122) \/ (b >= 65 /\ b <= 90) \/ (b >= 48 /\ b <= 57)
    \/ b \in {45, 95, 46, 126}

RECURSIVE QueryEscape(_)
QueryEscape(s) ==
    IF s = <<>> THEN <<>>
    ELSE LET b == Head(s)
         IN  (IF Unreserved(b) THEN <<b>>
              ELSE IF b = 32 THEN <<43>>
              ELSE <<37, HexUpper(b \div 16), HexUpper(b % 16)>>)
             \o QueryEscape(Tail(s))

RECURSIVE EncodeFrom(_, _, _)
EncodeFrom(q, keys, first) ==
    IF keys = <<>> THEN <<>>
    ELSE (IF first THEN <<>> ELSE <<38>>)
         \o QueryEscape(Head(keys)) \o <<61>> \o QueryEscape(Get(q, Head(keys)))
         \o EncodeFrom(q, Tail(keys), FALSE)

\* Encode writes key=value pairs joined by '&', sorted by key
Encode(q) == EncodeFrom(q, SortStrings(MapKeys(q)), TRUE)

-----------------------------------------------------------------------------
(* Client.AuthenticationURL *)

\* a plausible slip: frob is set even when it is empty
AuthenticationURLAlwaysFrob(c, perms, frob, off) ==
    LET q == Set(Set(Set(<<>>, K_api_key, c.APIKey), K_perms, perms), K_frob, frob)
    IN  [url |-> [authEndpoint EXCEPT !.RawQuery = Encode(sign(c, q, off))],
         sts |-> signSts(c, q, off)]

\* url is the URL returned; sts is the string sign hashed on the way
AuthenticationURL(c, perms, frob, off) ==
    LET q0 == Set(Set(<<>>, K_api_key, c.APIKey), K_perms, perms)
        q  == IF frob # <<>> THEN Set(q0, K_frob, frob) ELSE q0
    IN  [url |-> [authEndpoint EXCEPT !.RawQuery = Encode(sign(c, q, off))],
         sts |-> signSts(c, q, off)]

-----------------------------------------------------------------------------
(* error values.  type is the Go type (or the sentinel) of the error,      *)
(* format the format string or cause it was made from, Code and Msg its    *)
(* arguments or fields.                                                    *)

Err(type, format, code, msg) ==
    [type |-> type, format |-> format, Code |-> code, Msg |-> msg]

NoErr == Err("nil", "", 0, <<>>)

\* what Client.Do returns on failure
UrlError(cause) == Err("*url.Error", cause, 0, <<>>)

\* []byte return values: nil, or the tokens of the data
NilBytes == [nil |-> TRUE, data |-> <<>>]
Bytes(d) == [nil |-> FALSE, data |-> d]

-----------------------------------------------------------------------------
(* XML as xml.Decoder sees it: a document is the sequence of its top-level *)
(* tokens, an element carries its attributes and child tokens.             *)

Attr(k, v) == [k |-> k, v |-> v]
Element(name, attrs, children) ==
    [name |-> name, attrs |-> attrs, children |-> children]
\* character data, and a place where the tokenizer reports a syntax error
Text == Element("#text", <<>>, <<>>)
Malformed == Element("#malformed", <<>>, <<>>)

\* strings.TrimSpace on ASCII
IsSpace(b) == b \in {32, 9, 10, 13}

RECURSIVE TrimLeft(_)
TrimLeft(s) ==
    IF s # <<>> /\ IsSpace(Head(s)) THEN TrimLeft(Tail(s)) ELSE s

RECURSIVE TrimRight(_)
TrimRight(s) ==
    IF s # <<>> /\ IsSpace(s[Len(s)])
    THEN TrimRight(SubSeq(s, 1, Len(s) - 1)) ELSE s

TrimSpace(s) == TrimRight(TrimLeft(s))

IsDigits(s) == s # <<>> /\ \A i \in 1..Len(s) : s[i] >= 48 /\ s[i] <= 57

RECURSIVE DigitsValue(_, _)
DigitsValue(acc, s) ==
    IF s = <<>> THEN acc ELSE DigitsValue(acc * 10 + (Head(s) - 48), Tail(s))

\* strconv.ParseInt(s, 10, 64): ok is FALSE on a syntax error.  The texts
\* drawn below have at most a few digits, far from the 64-bit range error.
ParseInt(s) ==
    LET neg == s # <<>> /\ Head(s) = 45
        digits == IF s # <<>> /\ Head(s) \in {43, 45} THEN Tail(s) ELSE s
        v == IF IsDigits(digits) THEN DigitsValue(0, digits) ELSE 0
    IN  [ok |-> IsDigits(digits), v |-> IF neg THEN 0 - v ELSE v]

\* the value xml stores in an int field from attribute text src
AttrInt(src) ==
    IF src = <<>> THEN [ok |-> TRUE, v |-> 0] ELSE ParseInt(TrimSpace(src))

\* the Err field of rsp: a nil pointer, or the Error it points to
NilError == [nil |-> TRUE, Code |-> 0, Msg |-> <<>>]

\* one <err> child unmarshalled into the Err field: the pointer is
\* allocated when nil, and each attribute present overwrites its field
UnmarshalErr(cur, el) ==
    LET code == AttrInt(Get(el.attrs, "code"))
    IN  [ok |-> ~Has(el.attrs, "code") \/ code.ok,
         e |-> [nil |-> FALSE,
                Code |-> IF Has(el.attrs, "code") THEN code.v ELSE cur.Code,
                Msg |-> IF Has(el.attrs, "msg") THEN Get(el.attrs, "msg")
                        ELSE cur.Msg]]

RECURSIVE UnmarshalChildren(_, _)
UnmarshalChildren(cur, ch) ==
    IF ch = <<>> THEN [err |-> NoErr, e |-> cur]
    ELSE IF Head(ch).name = "#malformed"
    THEN [err |-> Err("*xml.SyntaxError", "", 0, <<>>), e |-> cur]
    ELSE IF Head(ch).name = "err"
    THEN LET r == UnmarshalErr(cur, Head(ch))
         IN  IF r.ok THEN UnmarshalChildren(r.e, Tail(ch))
             ELSE [err |-> Err("*strconv.NumError", "", 0, <<>>), e |-> r.e]
    ELSE UnmarshalChildren(cur, Tail(ch))

\* xml.Unmarshal(b, &rsp) for the struct of lines 172-177
RECURSIVE Unmarshal(_)
Unmarshal(b) ==
    LET zero == [Stat |-> <<>>, Err |-> NilError, Inner |-> NilBytes]
    IN  IF b = <<>> THEN [err |-> Err("io.EOF", "", 0, <<>>)] @@ zero
        ELSE IF Head(b).name = "#text" THEN Unmarshal(Tail(b))
        ELSE IF Head(b).name = "#malformed"
        THEN [err |-> Err("*xml.SyntaxError", "", 0, <<>>)] @@ zero
        ELSE IF Head(b).name # "rsp"
        THEN [err |-> Err("xml.UnmarshalError", "expected element type <rsp>",
                          0, <<>>)] @@ zero
        ELSE LET r == UnmarshalChildren(NilError, Head(b).children)
             IN  [err |-> r.err,
                  Stat |-> Get(Head(b).attrs, "stat"),
                  Err |-> r.e,
                  Inner |-> Bytes(Head(b).children)]

\* strconv.Quote on ASCII, the %q of line 185
RECURSIVE QuoteBody(_)
QuoteBody(s) ==
    IF s = <<>> THEN <<>>
    ELSE LET b == Head(s)
         IN  (IF b \in {34, 92} THEN <<92, b>>
              ELSE IF b >= 32 /\ b <= 126 THEN <<b>>
              ELSE <<92, 120, HexLower(b \div 16), HexLower(b % 16)>>)
             \o QuoteBody(Tail(s))

Quote(s) == <<34>> \o QuoteBody(s) \o <<34>>

-----------------------------------------------------------------------------
(* Client.Call, lines 172-188: what Call returns for the bytes b that post *)
(* returned without an error.                                              *)

\* a plausible slip: the status is looked at before the err element
CallClassifyStatFirst(b) ==
    LET rsp == Unmarshal(b)
    IN  IF rsp.err # NoErr THEN [payload |-> NilBytes, err |-> rsp.err]
        ELSE IF rsp.Stat # V_ok
        THEN [payload |-> NilBytes,
              err |-> Err("*errors.errorString", "unexpected stat %q", 0,
                          Quote(rsp.Stat))]
        ELSE IF ~rsp.Err.nil
        THEN [payload |-> NilBytes,
              err |-> Err("*rtm.Error", "%d: %s", rsp.Err.Code, rsp.Err.Msg)]
        ELSE [payload |-> rsp.Inner, err |-> NoErr]

\* a plausible slip: %s where the code has %q
CallClassifyUnquoted(b) ==
    LET rsp == Unmarshal(b)
    IN  IF rsp.err # NoErr THEN [payload |-> NilBytes, err |-> rsp.err]
        ELSE IF ~rsp.Err.nil
        THEN [payload |-> NilBytes,
              err |-> Err("*rtm.Error", "%d: %s", rsp.Err.Code, rsp.Err.Msg)]
        ELSE IF rsp.Stat # V_ok
        THEN [payload |-> NilBytes,
              err |-> Err("*errors.errorString", "unexpected stat %q", 0,
                          rsp.Stat)]
        ELSE [payload |-> rsp.Inner, err |-> NoErr]

CallClassify(b) ==
    LET rsp == Unmarshal(b)
    IN  IF rsp.err # NoErr THEN [payload |-> NilBytes, err |-> rsp.err]
        ELSE IF ~rsp.Err.nil
        THEN [payload |-> NilBytes,
              err |-> Err("*rtm.Error", "%d: %s", rsp.Err.Code, rsp.Err.Msg)]
        ELSE IF rsp.Stat # V_ok
        THEN [payload |-> NilBytes,
              err |-> Err("*errors.errorString", "unexpected stat %q", 0,
                          Quote(rsp.Stat))]
        ELSE [payload |-> rsp.Inner, err |-> NoErr]

-----------------------------------------------------------------------------
(* Client.post, lines 103-125: the query, signed, and the request.         *)

\* lines 103-115: q before it is signed; offA is the iteration offset of
\* `range args`
postQuery(c, method, args, format, offA) ==
    LET q0 == Range(args, offA)
        q1 == Set(Set(q0, K_v, V_2), K_method, method)
        q2 == IF format # <<>> THEN Set(q1, K_format, format) ELSE q1
        q3 == Set(q2, K_api_key, c.APIKey)
    IN  IF c.AuthToken # <<>> THEN Set(q3, K_auth_token, c.AuthToken) ELSE q3

NewRequest(u) == [Method |-> "POST", URL |-> u, UserAgent |-> userAgent]

NoRequest == [Method |-> "", URL |-> restEndpoint, UserAgent |-> ""]

\* what the diagnostic sink is handed
LogRequest(req) ==
    [kind |-> "request", req |-> req, StatusCode |-> 0, body |-> <<>>]
LogResponse(status, body) ==
    [kind |-> "response", req |-> NoRequest, StatusCode |-> status,
     body |-> body]

-----------------------------------------------------------------------------
(* The state of one call.  run[d] is the call made through a client whose  *)
(* DebugLogger is set (d = TRUE) or nil (d = FALSE); the two calls have    *)
(* the same credential, method and args and meet the same behaviour of the *)
(* network, net.                                                           *)

StatusOK == 200

Start ==
    [pc |-> "post", q |-> <<>>, sts |-> <<>>, req |-> NoRequest,
     log |-> <<>>, wire |-> <<>>,
     respNil |-> TRUE, StatusCode |-> 0, err |-> NoErr,
     held |-> FALSE, deferred |-> FALSE, buffered |-> FALSE,
     b |-> NilBytes, perr |-> NoErr, parsed |-> FALSE,
     ret |-> [payload |-> NilBytes, err |-> NoErr]]

\* reading resp.Body to its end: the bytes read and the error.  After
\* DumpResponse the body is an in-memory copy; before, it is the connection.
\* A read that fails hands back the bytes it got, here none.
ReadBody(s) ==
    IF s.buffered THEN [b |-> Bytes(net.body), err |-> NoErr]
    ELSE IF ~s.held
    THEN [b |-> Bytes(<<>>), err |-> Err("http.ErrBodyReadAfterClose", "", 0, <<>>)]
    ELSE IF net.readErr # "none"
    THEN [b |-> Bytes(<<>>), err |-> Err(net.readErr, "", 0, <<>>)]
    ELSE [b |-> Bytes(net.body), err |-> NoErr]

\* a plausible slip: the body is closed on the success path only
postReturnCloseOnSuccess(s, b, err) ==
    LET t == [s EXCEPT !.b = b, !.perr = err,
                       !.held = IF err = NoErr THEN FALSE ELSE s.held]
    IN  IF in.entry = "Call" THEN [t EXCEPT !.pc = "call"]
        ELSE [t EXCEPT !.pc = "done", !.ret = [payload |-> b, err |-> err]]

\* post returns (b, err): the deferred resp.Body.Close() of line 137 runs,
\* and control is back in Call (line 168) or in post's other caller
postReturn(s, b, err) ==
    LET t == [s EXCEPT !.b = b, !.perr = err,
                       !.held = IF s.deferred THEN FALSE ELSE s.held]
    IN  IF in.entry = "Call" THEN [t EXCEPT !.pc = "call"]
        ELSE [t EXCEPT !.pc = "done", !.ret = [payload |-> b, err |-> err]]

\* lines 103-125; offQ is the iteration offset of sign's range.  NewRequest
\* has no error to return for "POST" and the fixed endpoint.
postBuild(s, d, offA, offQ) ==
    LET q == postQuery(client, in.method, in.args, in.format, offA)
        signedQ == sign(client, q, offQ)
    IN  [s EXCEPT !.q = signedQ,
                  !.sts = signSts(client, q, offQ),
                  !.req = NewRequest([restEndpoint EXCEPT
                                        !.RawQuery = Encode(signedQ)]),
                  !.pc = IF d THEN "dumpreq" ELSE "do"]

\* lines 127-133.  DumpRequestOut runs the request through a transport of
\* its own, which gives up with ctx.Err() when ctx is already done.
postDumpRequestOut(s) ==
    IF net.do = "canceled_before"
    THEN postReturn(s, NilBytes, Err("context.Canceled", "", 0, <<>>))
    ELSE [s EXCEPT !.log = Append(s.log, LogRequest(s.req)), !.pc = "do"]

\* lines 135-138: c.http().Do(req), and the defer when resp is not nil
postDo(s, d) ==
    LET sent == net.do \in {"canceled_during", "redirect_error", "response"}
        gotResp == net.do \in {"redirect_error", "response"}
    IN  [s EXCEPT !.wire = IF sent THEN Append(s.wire, s.req) ELSE s.wire,
                  !.respNil = ~gotResp,
                  !.StatusCode = IF gotResp THEN net.StatusCode ELSE 0,
                  !.err = CASE net.do = "response" -> NoErr
                            [] net.do = "redirect_error" -> UrlError("redirect")
                            [] net.do = "dial_error" -> UrlError("dial")
                            [] OTHER -> UrlError("context.Canceled"),
                  \* a response that comes with an error has its body closed
                  !.held = (net.do = "response"),
                  !.deferred = gotResp,
                  !.pc = IF gotResp /\ d THEN "dumpresp" ELSE "finish"]

\* lines 139-145.  DumpResponse reads the body to its end, closes it and
\* puts an in-memory copy in its place.
postDumpResponse(s) ==
    LET r == ReadBody(s)
    IN  IF r.err # NoErr THEN postReturn(s, NilBytes, r.err)
        ELSE [s EXCEPT !.log = Append(s.log, LogResponse(s.StatusCode, r.b.data)),
                       !.buffered = TRUE, !.held = FALSE, !.pc = "finish"]

\* a plausible slip: the status is not looked at
postFinishAnyStatus(s) ==
    IF s.err # NoErr THEN postReturn(s, NilBytes, s.err)
    ELSE LET r == ReadBody(s) IN postReturn(s, r.b, r.err)

\* lines 147-154
postFinish(s) ==
    IF s.err # NoErr THEN postReturn(s, NilBytes, s.err)
    ELSE IF s.StatusCode # StatusOK
    THEN postReturn(s, NilBytes,
                    Err("*errors.errorString", "HTTP status code %d",
                        s.StatusCode, <<>>))
    ELSE LET r == ReadBody(s) IN postReturn(s, r.b, r.err)

\* Client.Call, lines 167-189
CallReturn(s) ==
    IF s.perr # NoErr
    THEN [s EXCEPT !.ret = [payload |-> NilBytes, err |-> s.perr],
                   !.pc = "done"]
    ELSE [s EXCEPT !.ret = CallClassify(s.b.data), !.parsed = TRUE,
                   !.pc = "done"]

-----------------------------------------------------------------------------
(* The inputs the checks draw from. *)

\* maps with at most n entries, every slot order, no key twice
Maps(keys, vals, n) ==
    LET E == {[k |-> k, v |-> v] : k \in keys, v \in vals}
    IN  {m \in UNION {[1..l -> E] : l \in 0..n} :
           \A i, j \in 1..Len(m) : i # j => m[i].k # m[j].k}

\* "B" < "a" < "ab" < "b" in byte order
SignKeys == {<<66>>, <<97>>, <<97, 98>>, <<98>>}
\* "1" and "& ="
SignVals == {<<49>>, <<38, 32, 61>>}
ParamSets == Maps(SignKeys, SignVals, MaxParams)

\* "", "f" and "&z"
Frobs == {<<>>, <<102>>, <<38, 122>>}

\* "name", and the keys post and sign set themselves
ArgKeys == {<<110, 97, 109, 101>>, K_v, K_method, K_format, K_api_key,
            K_auth_token, K_api_sig}
\* "x"
ArgVals == {<<120>>}
ArgSets == Maps(ArgKeys, ArgVals, MaxArgs)

\* "rtm.test.echo"
EchoMethod == <<114, 116, 109, 46, 116, 101, 115, 116, 46, 101, 99, 104, 111>>
\* "json"
Json == <<106, 115, 111, 110>>

NewClient(key, secret, token) ==
    [APIKey |-> key, APISecret |-> secret, AuthToken |-> token]

\* the <err> and other children a response is built from: code="98"
\* msg="no", code="x" (not a number), code=" 7" with no msg, no attributes
\* at all, a <list> element, and a syntax error
Children ==
    {Element("err", <<Attr("code", <<57, 56>>), Attr("msg", <<110, 111>>)>>, <<>>),
     Element("err", <<Attr("code", <<120>>), Attr("msg", <<110, 111>>)>>, <<>>),
     Element("err", <<Attr("code", <<32, 55>>)>>, <<>>),
     Element("err", <<>>, <<>>),
     Element("list", <<>>, <<>>),
     Malformed}

\* no stat, stat="ok", stat="fail", stat=`w"`
StatAttrs ==
    {<<>>, <<Attr("stat", V_ok)>>, <<Attr("stat", <<102, 97, 105, 108>>)>>,
     <<Attr("stat", <<119, 34>>)>>}

Bodies ==
    {<<>>, <<Text>>, <<Malformed>>, <<Element("html", <<>>, <<>>)>>}
    \cup {<<Element("rsp", a, ch)>> :
            a \in StatAttrs, ch \in UNION {[1..l -> Children] : l \in 0..MaxChildren}}
    \cup {<<Text, Element("rsp", <<Attr("stat", V_ok)>>, <<>>)>>}

NetFailure(do) ==
    [do |-> do, StatusCode |-> 0, body |-> <<>>, readErr |-> "none"]

\* the behaviour of the network and of ctx during one call: what Do comes
\* back with, the status and body of the response, and whether reading the
\* body from the connection fails
Nets ==
    {NetFailure(do) : do \in {"canceled_before", "dial_error", "canceled_during"}}
    \cup {[do |-> "redirect_error", StatusCode |-> 302, body |-> <<>>,
           readErr |-> "none"]}
    \cup {[do |-> "response", StatusCode |-> st, body |-> b, readErr |-> re] :
            st \in {StatusOK, 500}, b \in Bodies,
            re \in {"none", "io.ErrUnexpectedEOF", "context.Canceled"}}

OkBody == <<Element("rsp", <<Attr("stat", V_ok)>>, <<Element("list", <<>>, <<>>)>>)>>

NetsFew ==
    {NetFailure("dial_error"),
     [do |-> "response", StatusCode |-> StatusOK, body |-> OkBody,
      readErr |-> "none"]}

-----------------------------------------------------------------------------
(* Actions. *)

Post(d) ==
    /\ run[d].pc = "post"
    /\ \E offA \in Offsets(in.args) :
         \E offQ \in Offsets(postQuery(client, in.method, in.args, in.format, offA)) :
           run' = [run EXCEPT ![d] = postBuild(run[d], d, offA, offQ)]
    /\ UNCHANGED <<client, in, net, signed, authURL>>

DumpRequestOut(d) ==
    /\ run[d].pc = "dumpreq"
    /\ run' = [run EXCEPT ![d] = postDumpRequestOut(run[d])]
    /\ UNCHANGED <<client, in, net, signed, authURL>>

Do(d) ==
    /\ run[d].pc = "do"
    /\ run' = [run EXCEPT ![d] = postDo(run[d], d)]
    /\ UNCHANGED <<client, in, net, signed, authURL>>

DumpResponse(d) ==
    /\ run[d].pc = "dumpresp"
    /\ run' = [run EXCEPT ![d] = postDumpResponse(run[d])]
    /\ UNCHANGED <<client, in, net, signed, authURL>>

Finish(d) ==
    /\ run[d].pc = "finish"
    /\ run' = [run EXCEPT ![d] = postFinish(run[d])]
    /\ UNCHANGED <<client, in, net, signed, authURL>>

Call(d) ==
    /\ run[d].pc = "call"
    /\ run' = [run EXCEPT ![d] = CallReturn(run[d])]
    /\ UNCHANGED <<client, in, net, signed, authURL>>

\* sign applied to a parameter set P on its own
Sign ==
    /\ ~signed.done
    /\ \E P \in ParamSets : \E off \in Offsets(P) :
         signed' = [done |-> TRUE, P |-> P, off |-> off,
                    q |-> sign(client, P, off), sts |-> signSts(client, P, off)]
    /\ UNCHANGED <<client, in, net, run, authURL>>

AuthURL ==
    /\ ~authURL.done
    /\ \E perms \in Perms : \E frob \in Frobs : \E off \in 0..2 :
         authURL' = [done |-> TRUE, perms |-> perms, frob |-> frob]
                    @@ AuthenticationURL(client, perms, frob, off)
    /\ UNCHANGED <<client, in, net, run, signed>>

-----------------------------------------------------------------------------
(* Specifications.  They differ in the inputs they draw.                   *)

InitWith(clients, ins, nets) ==
    /\ client \in clients
    /\ in \in ins
    /\ net \in nets
    /\ run = [d \in BOOLEAN |-> Start]
    /\ signed = [done |-> FALSE, P |-> <<>>, off |-> 0, q |-> <<>>, sts |-> <<>>]
    /\ authURL = [done |-> FALSE, perms |-> Read, frob |-> <<>>,
                  url |-> authEndpoint, sts |-> <<>>]

CallOf(args) == [entry |-> "Call", method |-> EchoMethod, args |-> args, format |-> <<>>]
PostOf(args, format) ==
    [entry |-> "post", method |-> EchoMethod, args |-> args, format |-> format]

NextCall ==
    \E d \in BOOLEAN :
        \/ Post(d)
        \/ DumpRequestOut(d)
        \/ Do(d)
        \/ DumpResponse(d)
        \/ Finish(d)
        \/ Call(d)

\* sign and AuthenticationURL over every parameter set, secret and frob
InitSign ==
    InitWith({NewClient(<<107>>, s, <<>>) : s \in {<<>>, <<115>>, <<83, 50>>}},
             {CallOf(<<>>)}, {NetFailure("dial_error")})

NextSign == Sign \/ AuthURL

SpecSign == InitSign /\ [][NextSign]_vars

\* the request post builds, over every Args mapping
InitRequest ==
    InitWith({NewClient(<<107>>, <<115>>, t) : t \in {<<>>, <<116>>}},
             {CallOf(a) : a \in ArgSets}
               \cup {PostOf(a, f) : a \in ArgSets, f \in {<<>>, Json}},
             NetsFew)

SpecRequest == InitRequest /\ [][NextCall]_vars

\* the exchange and the envelope, over every behaviour of the network
InitExchange ==
    InitWith({NewClient(<<107>>, <<115>>, <<116>>)},
             {CallOf(<<[k |-> <<110, 97, 109, 101>>, v |-> <<120>>]>>)}, Nets)

SpecExchange == InitExchange /\ [][NextCall]_vars

-----------------------------------------------------------------------------
(* What the properties are stated with: the query string as the server     *)
(* decodes it, and the canonical string to sign of the service's           *)
(* "Signing Requests" rule.                                                *)

HexValue(b) == IF b <= 57 THEN b - 48 ELSE IF b <= 70 THEN b - 55 ELSE b - 87

RECURSIVE QueryUnescape(_)
QueryUnescape(s) ==
    IF s = <<>> THEN <<>>
    ELSE IF Head(s) = 37 /\ Len(s) >= 3
    THEN <<HexValue(s[2]) * 16 + HexValue(s[3])>>
         \o QueryUnescape(SubSeq(s, 4, Len(s)))
    ELSE <<IF Head(s) = 43 THEN 32 ELSE Head(s)>> \o QueryUnescape(Tail(s))

\* the positions of byte c in s
Positions(s, c) == {i \in 1..Len(s) : s[i] = c}

\* the key=value pairs of a raw query, decoded
QueryPairs(raw) ==
    LET cuts == Positions(raw, 38) \cup {0, Len(raw) + 1}
        segs == {sg \in cuts \X cuts :
                   sg[1] < sg[2] /\ ~\E z \in cuts : sg[1] < z /\ z < sg[2]}
        Pair(part) ==
            LET eqs == Positions(part, 61) \cup {Len(part) + 1}
                eq == CHOOSE i \in eqs : \A j \in eqs : i <= j
            IN  <<QueryUnescape(SubSeq(part, 1, eq - 1)),
                  QueryUnescape(SubSeq(part, eq + 1, Len(part)))>>
    IN  IF raw = <<>> THEN {}
        ELSE {Pair(SubSeq(raw, sg[1] + 1, sg[2] - 1)) : sg \in segs}

QueryKeys(raw) == {p[1] : p \in QueryPairs(raw)}

\* the values sent under key k
QueryValues(raw, k) == {p[2] : p \in {x \in QueryPairs(raw) : x[1] = k}}

\* every key of the raw query occurs in it once
QueryKeysOnce(raw) ==
    raw # <<>> => Cardinality(QueryKeys(raw)) = Cardinality(Positions(raw, 38)) + 1

\* S followed by key and value of every key of K in ascending order, f
\* giving the values
RECURSIVE Canonical(_, _)
Canonical(K, f) ==
    IF K = {} THEN <<>>
    ELSE LET k == CHOOSE x \in K : \A y \in K \ {x} : StrLess(x, y)
         IN  k \o f[k] \o Canonical(K \ {k}, f)

Signature(secret, K, f) == EncodeToString(Md5Sum(secret \o Canonical(K, f)))

\* the parameters of a raw query other than api_sig, as a function
QueryOthers(raw) ==
    [k \in QueryKeys(raw) \ {K_api_sig} |-> CHOOSE v \in QueryValues(raw, k) : TRUE]

-----------------------------------------------------------------------------
(* Properties of sign and AuthenticationURL, checked under SpecSign.       *)

\* C1: for a parameter set P without api_sig and a secret S, the string sign
\* hashes is S followed by key and value of every key of P in ascending byte
\* order, whatever the order the keys were inserted or iterated in; api_sig
\* is the hex digest of that string, the other parameters are kept, and the
\* empty set signs S alone.
C1_SignCanonical ==
    signed.done =>
        LET K == KeySet(signed.P)
            f == [k \in K |-> Get(signed.P, k)]
        IN  /\ signed.sts = client.APISecret \o Canonical(K, f)
            /\ Get(signed.q, K_api_sig) = Signature(client.APISecret, K, f)
            /\ KeySet(signed.q) = K \cup {K_api_sig}
            /\ \A k \in K : Get(signed.q, k) = f[k]
            /\ (K = {} => signed.sts = client.APISecret)

\* sign has run on two keys that it met in descending order
C1_Witness ==
    /\ signed.done
    /\ Len(signed.P) = 2
    /\ LET it == MapKeys(Range(signed.P, signed.off)) IN StrLess(it[2], it[1])
    /\ Get(signed.q, K_api_sig) # <<>>

\* the parameters AuthenticationURL is to send, api_sig aside
AuthParams(a) ==
    [k \in {K_api_key, K_perms} \cup (IF a.frob # <<>> THEN {K_frob} ELSE {}) |->
        IF k = K_api_key THEN client.APIKey
        ELSE IF k = K_perms THEN a.perms ELSE a.frob]

\* C10: AuthenticationURL sends api_key and perms, plus frob exactly when
\* frob is not empty; the string it signs is the canonical string of exactly
\* those parameters, and the query is those parameters plus the api_sig
\* computed over them, on the authorization endpoint.
C10_AuthenticationURL ==
    authURL.done =>
        LET raw == authURL.url.RawQuery
            f == AuthParams(authURL)
        IN  /\ QueryKeys(raw) = DOMAIN f \cup {K_api_sig}
            /\ QueryKeysOnce(raw)
            /\ \A k \in DOMAIN f : QueryValues(raw, k) = {f[k]}
            /\ authURL.sts = client.APISecret \o Canonical(DOMAIN f, f)
            /\ QueryValues(raw, K_api_sig)
                 = {Signature(client.APISecret, DOMAIN f, f)}
            /\ (K_frob \in QueryKeys(raw)) = (authURL.frob # <<>>)
            /\ [authURL.url EXCEPT !.RawQuery = <<>>] = authEndpoint

\* AuthenticationURL has run with an empty frob and sent none
C10_Witness ==
    /\ authURL.done
    /\ authURL.frob = <<>>
    /\ K_frob \notin QueryKeys(authURL.url.RawQuery)
    /\ K_api_sig \in QueryKeys(authURL.url.RawQuery)

-----------------------------------------------------------------------------
(* Properties of the request post builds, checked under SpecRequest.       *)

\* the raw queries of the requests the call of client d has sent
SentQueries(d) == {run[d].wire[i].URL.RawQuery : i \in 1..Len(run[d].wire)}

\* C2: in every request sent, v, method, format, api_key and auth_token have
\* the values post assigns from the method name, the format override and the
\* credential, never the caller's; format and auth_token are absent when the
\* override is empty or the credential has no token.
C2_ReservedKeysWin ==
    \A d \in BOOLEAN : \A raw \in SentQueries(d) :
        /\ QueryValues(raw, K_v) = {V_2}
        /\ QueryValues(raw, K_method) = {in.method}
        /\ QueryValues(raw, K_api_key) = {client.APIKey}
        /\ QueryValues(raw, K_format)
             = (IF in.format # <<>> THEN {in.format} ELSE {})
        /\ QueryValues(raw, K_auth_token)
             = (IF client.AuthToken # <<>> THEN {client.AuthToken} ELSE {})

\* C3: the api_sig of every request sent is the signature over exactly the
\* other parameters sent, and the string that was signed is the canonical
\* string of those parameters: api_sig is no part of it.
C3_SignatureOverOthers ==
    \A d \in BOOLEAN : \A raw \in SentQueries(d) :
        LET f == QueryOthers(raw)
        IN  /\ QueryKeysOnce(raw)
            /\ run[d].sts = client.APISecret \o Canonical(DOMAIN f, f)
            /\ QueryValues(raw, K_api_sig)
                 = {Signature(client.APISecret, DOMAIN f, f)}

-----------------------------------------------------------------------------
(* Properties of the exchange and the envelope, checked under SpecExchange. *)

\* the call of client d has returned
Returned(d) == run[d].pc = "done"

\* the root element of document b: the first token that is no text
RootIndex(b) ==
    LET idx == {i \in 1..Len(b) : b[i].name # "#text"}
    IN  IF idx = {} THEN 0 ELSE CHOOSE i \in idx : \A j \in idx : i <= j

\* text that xml accepts for an int field
IntText(t) ==
    LET u == TrimSpace(t)
        digits == IF u # <<>> /\ Head(u) \in {43, 45} THEN Tail(u) ELSE u
    IN  t = <<>> \/ IsDigits(digits)

\* b parses as the expected XML: an <rsp> root, no syntax error, and every
\* code attribute of an <err> child a number
ExpectedXML(b) ==
    /\ RootIndex(b) # 0
    /\ LET root == b[RootIndex(b)]
       IN  /\ root.name = "rsp"
           /\ \A i \in 1..Len(root.children) :
                LET c == root.children[i]
                IN  /\ c.name # "#malformed"
                    /\ c.name = "err" /\ Has(c.attrs, "code")
                         => IntText(Get(c.attrs, "code"))

ErrElements(b) ==
    LET root == b[RootIndex(b)]
    IN  {i \in 1..Len(root.children) : root.children[i].name = "err"}

StatOf(b) == Get(b[RootIndex(b)].attrs, "stat")

DecodeErrors ==
    {"io.EOF", "*xml.SyntaxError", "xml.UnmarshalError", "*strconv.NumError"}

\* C4: for every body handed to the parser, Call returns by the decision
\* table in order: a body that is not the expected XML gives the decode
\* error; else an <err> child gives the *Error with that element's code and
\* msg whatever stat is; else stat "ok" gives the root's inner XML and no
\* error; and no payload ever comes with an error.
C4_EnvelopeTable ==
    \A d \in BOOLEAN :
        Returned(d) =>
            LET b == run[d].b.data
                ret == run[d].ret
            IN  /\ ret.err # NoErr => ret.payload = NilBytes
                /\ ~run[d].parsed => ret.err # NoErr
                /\ run[d].parsed =>
                     IF ~ExpectedXML(b)
                     THEN ret.err.type \in DecodeErrors
                     ELSE IF ErrElements(b) # {}
                     THEN /\ ret.err.type = "*rtm.Error"
                          /\ \A i \in ErrElements(b) :
                               ErrElements(b) = {i} =>
                                 LET e == b[RootIndex(b)].children[i]
                                 IN  /\ ret.err.Code
                                          = AttrInt(Get(e.attrs, "code")).v
                                     /\ ret.err.Msg = Get(e.attrs, "msg")
                     ELSE IF StatOf(b) = V_ok
                     THEN ret = [payload |-> Bytes(b[RootIndex(b)].children),
                                 err |-> NoErr]
                     ELSE ret.err # NoErr

\* a body with stat="ok" and an <err code="98"> child was answered with the
\* *Error of code 98
C4_Witness ==
    \E d \in BOOLEAN :
        /\ Returned(d) /\ run[d].parsed
        /\ ExpectedXML(run[d].b.data)
        /\ ErrElements(run[d].b.data) # {}
        /\ StatOf(run[d].b.data) = V_ok
        /\ run[d].ret.err.type = "*rtm.Error"
        /\ run[d].ret.err.Code = 98

\* the body parsed, has no <err> child and a stat other than "ok"
UnexpectedStat(d) ==
    /\ Returned(d) /\ run[d].parsed
    /\ ExpectedXML(run[d].b.data)
    /\ ErrElements(run[d].b.data) = {}
    /\ StatOf(run[d].b.data) # V_ok

ExchangeCompleted == net.do = "response" /\ net.readErr = "none"

\* C6: when the exchange completes with a status other than 200, the call
\* fails with the error that carries the status code, whatever the body
\* holds; nothing of the body is returned by post and xml.Unmarshal is
\* never run.
C6_StatusBeforeBody ==
    \A d \in BOOLEAN :
        /\ net.do = "response" /\ net.StatusCode # StatusOK =>
             ~run[d].parsed /\ run[d].b = NilBytes
        /\ Returned(d) /\ ExchangeCompleted /\ net.StatusCode # StatusOK =>
             /\ run[d].ret.payload = NilBytes
             /\ run[d].ret.err
                  = Err("*errors.errorString", "HTTP status code %d",
                        net.StatusCode, <<>>)

\* a 500 response with a well-formed stat="ok" envelope was answered with
\* the status error, by the client with a sink, which has logged the body
C6_Witness ==
    /\ Returned(TRUE) /\ ExchangeCompleted /\ net.StatusCode = 500
    /\ ExpectedXML(net.body) /\ ErrElements(net.body) = {}
    /\ StatOf(net.body) = V_ok
    /\ run[TRUE].ret.err.Code = 500
    /\ \E i \in 1..Len(run[TRUE].log) : run[TRUE].log[i].kind = "response"

\* the error at the root of an error value (errors.Unwrap to the end)
Cause(e) == IF e.type = "*url.Error" THEN e.format ELSE e.type

LogCount(d, kind) ==
    Cardinality({i \in 1..Len(run[d].log) : run[d].log[i].kind = kind})

\* C7: with a sink, every call emits the outbound request once, before it
\* is sent, and the inbound response once when one was received, before the
\* status and the envelope are looked at, whatever the outcome.
C7_EmittedOncePerCall ==
    /\ run[TRUE].wire # <<>> => LogCount(TRUE, "request") = 1
    /\ run[TRUE].pc \in {"finish", "call", "done"} /\ ~run[TRUE].respNil =>
         LogCount(TRUE, "response") = 1
    /\ Returned(TRUE) =>
         /\ LogCount(TRUE, "request") = 1
         /\ run[TRUE].log[1].kind = "request"
         /\ LogCount(TRUE, "response") = (IF run[TRUE].respNil THEN 0 ELSE 1)

\* C8: the call with a sink and the call without one, on the same inputs
\* and the same behaviour of the network, send the same request and return
\* the same payload or the same error.
C8_SinkChangesNothing ==
    Returned(TRUE) /\ Returned(FALSE) =>
        /\ run[TRUE].wire = run[FALSE].wire
        /\ run[TRUE].ret.payload = run[FALSE].ret.payload
        /\ Cause(run[TRUE].ret.err) = Cause(run[FALSE].ret.err)

\* ctx was cancelled before or during the exchange
Cancelled ==
    \/ net.do \in {"canceled_before", "canceled_during"}
    \/ net.do = "response" /\ net.readErr = "context.Canceled"

\* C9: once post has returned, on whatever path, the body of the response
\* it obtained is closed; and a cancelled call returns an error and no
\* payload.
C9_BodyReleased ==
    \A d \in BOOLEAN :
        /\ run[d].pc \in {"call", "done"} => ~run[d].held
        /\ Returned(d) /\ Cancelled =>
             run[d].ret.err # NoErr /\ run[d].ret.payload = NilBytes

\* a call cancelled while the body was read has returned the cancellation
\* error, its response body closed
C9_Witness ==
    \E d \in BOOLEAN :
        /\ Returned(d) /\ ~run[d].respNil /\ run[d].deferred
        /\ net.readErr = "context.Canceled"
        /\ run[d].ret.err.type = "context.Canceled"
        /\ ~run[d].held

=============================================================================
